---- MODULE Spec2Model ----
(***************************************************************************)
(* AIDO: the proposal repository (proposals and evaluations tables) and    *)
(* the React components that read and write it: ConsensusAlgorithm         *)
(* (load, calculateMetrics, calculateConsensus), DecisionMaking            *)
(* (loadProposal, handleEvaluate), TaskAllocation (agents and tasks        *)
(* tables) and PerformanceMonitoring (metrics snapshots).                  *)
(*                                                                         *)
(* Scores are fixed-point numbers in hundredths (800 is the score 8.00):   *)
(* the evaluations.score column is DECIMAL and the seed data holds 85.5.   *)
(* Every asynchronous repository or oracle call is three steps: the        *)
(* component issues it, the service serves it (or fails), and the          *)
(* component's continuation runs with the result.                          *)
(***************************************************************************)
EXTENDS Integers, Sequences, FiniteSets

\* ------------------------------------------------------------------ bounds
NumInstances == 2
NumProposals == 2
MaxEvals == 2
MaxLoads == 2
MaxCalcEvals == 3

Instances == 1..NumInstances
ProposalIds == 1..NumProposals

\* scores an evaluation may carry: Spec and SpecEvaluate, SpecProp, SpecCalc
Scores == {400, 800}
PropScores == {800}
CalcScores == {100, 696, 700, 800, 900}

NumAgents == 2
MaxTasks == 2
MaxFetches == 2
MaxDescLen == 1
MaxCount == 2
NumRanges == 2
MaxPmLoads == 2
MaxGenerates == 2

AgentIds == 1..NumAgents
DescChars == {" ", "x"}
Ranges == 1..NumRanges
Views == {"overview", "agents", "tasks"}

\* ------------------------------------------------------------ repository
VARIABLES
  dbStatus,   \* proposals.status per proposal id; "absent" when there is no row
  dbEvals,    \* evaluations rows per proposal id, in insertion order
  ca,         \* ConsensusAlgorithm component instances
  dm,         \* DecisionMaking component instances
  dbAgents,   \* ids of the rows of the agents table
  dbTasks,    \* tasks rows, in insertion order
  ta,         \* the TaskAllocation component
  pm,         \* the PerformanceMonitoring component
  app,        \* the App component: currentView, selectedProposalId, and
              \* lastCreated, the id of the proposal this session saved last
              \* (recorded for the properties; 0 stands for null / none)
  an,         \* the AgentNetwork component rendered by App
  gen         \* the handleGenerateProposal calls in flight, per slot

vars == <<dbStatus, dbEvals, ca, dm, dbAgents, dbTasks, ta, pm, app, an, gen>>

proposalVars == <<dbStatus, dbEvals, ca, dm>>
allocVars == <<dbAgents, dbTasks, ta>>
perfVars == <<pm>>
appVars == <<app, an, gen>>

Terminal == {"accepted", "rejected"}

RECURSIVE SumSeq(_)
SumSeq(s) == IF s = <<>> THEN 0 ELSE Head(s) + SumSeq(Tail(s))

TotalEvals == SumSeq([p \in ProposalIds |-> Len(dbEvals[p])])

\* ---------------------------------------------------- calculateMetrics
\* scores = evals.map(e => e.score)
ScoresOf(evals) == [k \in 1..Len(evals) |-> evals[k].score]

\* average.toFixed(1), as a number of tenths: the tenth nearest to sum/n
\* hundredths. (An exact tie between two tenths rounds up here; no score
\* sequence of the bounded sets produces one.)
ToFixed1(sum, n) == (2 * sum + 10 * n) \div (20 * n)

\* sum over the scores of (score - average)^2, times n^2:
\* (score - sum/n)^2 * n^2 = (n*score - sum)^2
RECURSIVE SqDevN(_, _, _)
SqDevN(scores, sum, n) ==
  IF scores = <<>> THEN 0
  ELSE (n * Head(scores) - sum) * (n * Head(scores) - sum)
       + SqDevN(Tail(scores), sum, n)

\* the sample variance: the squared deviations divided by n - 1
VarianceBelowSample(scores, limit) ==
  LET n == Len(scores)
      sum == SumSeq(scores)
  IN  SqDevN(scores, sum, n) < limit * 10000 * n * n * (n - 1)

\* variance < limit, where variance = (sum of squared deviations) / n and
\* the scores are in hundredths: SqDevN / n^2 / n < limit * 100^2
VarianceBelow(scores, limit) ==
  LET n == Len(scores)
      sum == SumSeq(scores)
  IN  SqDevN(scores, sum, n) < limit * 10000 * n * n * n

NoMetrics ==
  [averageScore |-> -1, consensusStrength |-> "none", scoreVariance |-> "none",
   participationRate |-> 0]

calculateMetrics(evals) ==
  LET scores == ScoresOf(evals)
      n == Len(scores)
      sum == SumSeq(scores)
  IN  [averageScore |-> ToFixed1(sum, n),
       consensusStrength |->
         IF VarianceBelow(scores, 1) /\ n >= 3 THEN "High"
         ELSE IF VarianceBelow(scores, 2) /\ n >= 2 THEN "Medium"
         ELSE "Low",
       scoreVariance |->
         IF VarianceBelow(scores, 1) THEN "Low"
         ELSE IF VarianceBelow(scores, 2) THEN "Medium"
         ELSE "High",
       participationRate |-> 100]

\* const status = metrics.averageScore >= 7 ? 'accepted' : 'rejected'
\* (averageScore is held in tenths)
StatusFor(metrics) ==
  IF metrics.averageScore >= 7 * 10 THEN "accepted" ELSE "rejected"

\* ------------------------------------------------- repository operations
\* INSERT INTO evaluations: the row references an existing proposal; the
\* table has no evaluator column and no uniqueness constraint. The field by
\* records which client submitted the row and is read by no operation.
InsertEvaluation(p, s, who) ==
  /\ dbStatus[p] # "absent"
  /\ dbEvals' = [dbEvals EXCEPT ![p] = Append(@, [score |-> s, by |-> who])]

\* UPDATE proposals SET status = ... WHERE id = ...: no condition on the
\* current status
UpdateStatus(p, status) ==
  dbStatus' = [dbStatus EXCEPT ![p] = status]

\* ------------------------------------------- ConsensusAlgorithm component
NoProposal == [id |-> 0, status |-> "none"]
\* raced: the instances whose status write for the same proposal was in
\* flight together with this one (recorded for the properties, read by no
\* operation)
NoCall == [phase |-> "none", pid |-> 0, status |-> "none", raced |-> {}]

Unmounted ==
  [mounted |-> FALSE, proposalId |-> 0, proposal |-> NoProposal,
   evaluations |-> <<>>, metrics |-> NoMetrics, error |-> "",
   isProcessing |-> FALSE, consensusReached |-> FALSE, loads |-> {},
   call |-> NoCall]

NewLoad(p) ==
  [pid |-> p,
   pRes |-> [st |-> "wait", status |-> "none"],
   eRes |-> [st |-> "wait", rows |-> <<>>]]

InFlight(c) == c.phase \in {"sent", "ok", "err"}

\* first render and useEffect: state from useState defaults, one load issued.
\* (Slot i is taken again only once the status write of its earlier instance
\* has completed; a remount before that is a mount in another slot.)
Mount(i, p) ==
  /\ ~ca[i].mounted
  /\ ca[i].call.phase = "none"
  /\ ca' = [ca EXCEPT ![i] =
              [Unmounted EXCEPT !.mounted = TRUE, !.proposalId = p,
                                !.loads = {NewLoad(p)}]]
  /\ UNCHANGED <<dbStatus, dbEvals, dm, allocVars, perfVars, appVars>>

\* the parent stops rendering the component: its state is dropped, the
\* results of its loads are ignored, a status write already issued goes on
Unmount(i) ==
  /\ ca[i].mounted
  /\ ca' = [ca EXCEPT ![i] =
              [Unmounted EXCEPT !.call =
                 IF InFlight(ca[i].call) THEN ca[i].call ELSE NoCall]]
  /\ UNCHANGED <<dbStatus, dbEvals, dm, allocVars, perfVars, appVars>>

\* the parent passes another proposalId: useEffect([proposalId]) loads again
SetProposalId(i, p) ==
  /\ ca[i].mounted
  /\ p # ca[i].proposalId
  /\ Cardinality(ca[i].loads) < MaxLoads
  /\ ca' = [ca EXCEPT ![i].proposalId = p, ![i].loads = @ \union {NewLoad(p)}]
  /\ UNCHANGED <<dbStatus, dbEvals, dm, allocVars, perfVars, appVars>>

\* database.getProposal(proposalId) is served
GetProposal(i, l) ==
  /\ l \in ca[i].loads
  /\ l.pRes.st = "wait"
  /\ \E res \in {"served", "fail"} :
       LET r == IF res = "fail" THEN [st |-> "fail", status |-> "none"]
                ELSE IF dbStatus[l.pid] = "absent"
                     THEN [st |-> "null", status |-> "none"]
                     ELSE [st |-> "ok", status |-> dbStatus[l.pid]]
       IN ca' = [ca EXCEPT ![i].loads = (@ \ {l}) \union {[l EXCEPT !.pRes = r]}]
  /\ UNCHANGED <<dbStatus, dbEvals, dm, allocVars, perfVars, appVars>>

\* database.getEvaluations(proposalId) is served
GetEvaluations(i, l) ==
  /\ l \in ca[i].loads
  /\ l.eRes.st = "wait"
  /\ \E res \in {"served", "fail"} :
       LET r == IF res = "fail" THEN [st |-> "fail", rows |-> <<>>]
                ELSE [st |-> "ok", rows |-> dbEvals[l.pid]]
       IN ca' = [ca EXCEPT ![i].loads = (@ \ {l}) \union {[l EXCEPT !.eRes = r]}]
  /\ UNCHANGED <<dbStatus, dbEvals, dm, allocVars, perfVars, appVars>>

\* the continuation of loadProposalAndEvaluations after Promise.all
LoadDone(i, l) ==
  /\ l \in ca[i].loads
  /\ \/ l.pRes.st = "fail"
     \/ l.eRes.st = "fail"
     \/ (l.pRes.st # "wait" /\ l.eRes.st # "wait")
  /\ ca' = [ca EXCEPT ![i] =
       LET c == [ca[i] EXCEPT !.loads = @ \ {l}]
       IN  IF l.pRes.st = "fail" \/ l.eRes.st = "fail"
           THEN [c EXCEPT !.error = "Error loading data"]
           ELSE IF l.pRes.st = "null"
           THEN [c EXCEPT !.error = "Proposal not found"]
           ELSE [c EXCEPT !.proposal = [id |-> l.pid, status |-> l.pRes.status],
                          !.evaluations = l.eRes.rows,
                          !.metrics = IF Len(l.eRes.rows) > 0
                                      THEN calculateMetrics(l.eRes.rows)
                                      ELSE @]]
  /\ UNCHANGED <<dbStatus, dbEvals, dm, allocVars, perfVars, appVars>>

\* the button rendered and enabled whatever consensusReached is
ButtonEnabledAfterConsensus(c) ==
  /\ c.mounted
  /\ c.proposal # NoProposal
  /\ Len(c.evaluations) > 0
  /\ ~c.isProcessing

\* the Calculate Consensus button is rendered and enabled
ButtonEnabled(c) ==
  /\ c.mounted
  /\ c.proposal # NoProposal
  /\ Len(c.evaluations) > 0
  /\ ~c.consensusReached
  /\ ~c.isProcessing

\* the other instances with a status write in flight for the same proposal
Racing(i, p) ==
  {j \in Instances \ {i} : InFlight(ca[j].call) /\ ca[j].call.pid = p}

\* onClick: calculateConsensus up to the await
calculateConsensus(i) ==
  /\ ButtonEnabled(ca[i])
  /\ ca[i].metrics # NoMetrics
  /\ ca' = [j \in Instances |->
       IF j = i
       THEN [ca[i] EXCEPT !.isProcessing = TRUE, !.error = "",
                          !.call = [phase |-> "sent", pid |-> ca[i].proposalId,
                                    status |-> StatusFor(ca[i].metrics),
                                    raced |-> Racing(i, ca[i].proposalId)]]
       ELSE IF j \in Racing(i, ca[i].proposalId)
       THEN [ca[j] EXCEPT !.call.raced = @ \union {i}]
       ELSE ca[j]]
  /\ UNCHANGED <<dbStatus, dbEvals, dm, allocVars, perfVars, appVars>>

\* database.updateProposalStatus(proposalId, status) is served
UpdateProposalStatus(i) ==
  /\ ca[i].call.phase = "sent"
  /\ \/ /\ dbStatus[ca[i].call.pid] # "absent"
        /\ UpdateStatus(ca[i].call.pid, ca[i].call.status)
        /\ ca' = [ca EXCEPT ![i].call.phase = "ok"]
     \/ /\ ca' = [ca EXCEPT ![i].call.phase = "err"]
        /\ UNCHANGED dbStatus
  /\ UNCHANGED <<dbEvals, dm, allocVars, perfVars, appVars>>

\* calculateConsensus reporting consensus whether or not the write succeeded
ConsensusDoneOptimistic(i) ==
  /\ ca[i].call.phase \in {"ok", "err"}
  /\ ca' = [ca EXCEPT ![i] =
       IF ~ca[i].mounted THEN [@ EXCEPT !.call = NoCall]
       ELSE [@ EXCEPT !.consensusReached = TRUE,
                      !.proposal = IF @ # NoProposal
                                   THEN [@ EXCEPT !.status = ca[i].call.status]
                                   ELSE @,
                      !.isProcessing = FALSE,
                      !.call = IF ca[i].call.phase = "ok"
                               THEN [ca[i].call EXCEPT !.phase = "reported"]
                               ELSE NoCall]]
  /\ UNCHANGED <<dbStatus, dbEvals, dm, allocVars, perfVars, appVars>>

\* calculateConsensus after the await: try, catch, finally
ConsensusDone(i) ==
  /\ ca[i].call.phase \in {"ok", "err"}
  /\ ca' = [ca EXCEPT ![i] =
       IF ~ca[i].mounted THEN [@ EXCEPT !.call = NoCall]
       ELSE IF ca[i].call.phase = "ok"
       THEN [@ EXCEPT !.consensusReached = TRUE,
                      !.proposal = IF @ # NoProposal
                                   THEN [@ EXCEPT !.status = ca[i].call.status]
                                   ELSE @,
                      !.isProcessing = FALSE,
                      !.call.phase = "reported"]
       ELSE [@ EXCEPT !.error = "Error reaching consensus",
                      !.isProcessing = FALSE,
                      !.call = NoCall]]
  /\ UNCHANGED <<dbStatus, dbEvals, dm, allocVars, perfVars, appVars>>

\* ----------------------------------------------- DecisionMaking component
NoEvaluation == [score |-> -1]
NoDmCall == [phase |-> "none", pid |-> 0, score |-> -1]

DmUnmounted ==
  [mounted |-> FALSE, proposalId |-> 0, proposal |-> NoProposal,
   evaluation |-> NoEvaluation, error |-> "", isEvaluating |-> FALSE,
   loads |-> {}, call |-> NoDmCall]

DmNewLoad(p) == [pid |-> p, st |-> "wait", status |-> "none"]

DmInFlight(c) == c.phase \in {"oracle", "scored", "failed", "save", "saved", "unsaved"}

\* first render and useEffect: loadProposal is issued. (Slot i is taken
\* again only once the handleEvaluate of its earlier instance has completed.)
DmMount(i, p) ==
  /\ ~dm[i].mounted
  /\ dm[i].call.phase = "none"
  /\ dm' = [dm EXCEPT ![i] =
              [DmUnmounted EXCEPT !.mounted = TRUE, !.proposalId = p,
                                  !.loads = {DmNewLoad(p)}]]
  /\ UNCHANGED <<dbStatus, dbEvals, ca, allocVars, perfVars, appVars>>

\* the parent stops rendering the component; handleEvaluate, once started,
\* runs on
DmUnmount(i) ==
  /\ dm[i].mounted
  /\ dm' = [dm EXCEPT ![i] =
              [DmUnmounted EXCEPT !.call =
                 IF DmInFlight(dm[i].call) THEN dm[i].call ELSE NoDmCall]]
  /\ UNCHANGED <<dbStatus, dbEvals, ca, allocVars, perfVars, appVars>>

\* the parent passes another proposalId: useEffect([proposalId]) loads again
DmSetProposalId(i, p) ==
  /\ dm[i].mounted
  /\ p # dm[i].proposalId
  /\ Cardinality(dm[i].loads) < MaxLoads
  /\ dm' = [dm EXCEPT ![i].proposalId = p, ![i].loads = @ \union {DmNewLoad(p)}]
  /\ UNCHANGED <<dbStatus, dbEvals, ca, allocVars, perfVars, appVars>>

\* database.getProposal(proposalId) is served
DmGetProposal(i, l) ==
  /\ l \in dm[i].loads
  /\ l.st = "wait"
  /\ \E res \in {"served", "fail"} :
       LET r == IF res = "fail" THEN [l EXCEPT !.st = "fail"]
                ELSE IF dbStatus[l.pid] = "absent" THEN [l EXCEPT !.st = "null"]
                ELSE [l EXCEPT !.st = "ok", !.status = dbStatus[l.pid]]
       IN dm' = [dm EXCEPT ![i].loads = (@ \ {l}) \union {r}]
  /\ UNCHANGED <<dbStatus, dbEvals, ca, allocVars, perfVars, appVars>>

\* the continuation of loadProposal
DmLoadDone(i, l) ==
  /\ l \in dm[i].loads
  /\ l.st # "wait"
  /\ dm' = [dm EXCEPT ![i] =
       LET c == [dm[i] EXCEPT !.loads = @ \ {l}]
       IN  IF l.st = "fail" THEN [c EXCEPT !.error = "Error loading proposal"]
           ELSE IF l.st = "null" THEN [c EXCEPT !.error = "Proposal not found"]
           ELSE [c EXCEPT !.proposal = [id |-> l.pid, status |-> l.status]]]
  /\ UNCHANGED <<dbStatus, dbEvals, ca, allocVars, perfVars, appVars>>

\* the Evaluate Proposal button is rendered and enabled
EvaluateEnabled(c) ==
  /\ c.mounted
  /\ c.error # "Proposal not found"
  /\ ~c.isEvaluating
  /\ c.proposal # NoProposal

\* onClick: handleEvaluate up to the await of openAI.evaluateProposal
handleEvaluate(i) ==
  /\ EvaluateEnabled(dm[i])
  /\ dm' = [dm EXCEPT ![i].error = "", ![i].isEvaluating = TRUE,
                      ![i].call = [phase |-> "oracle", pid |-> dm[i].proposalId,
                                   score |-> -1]]
  /\ UNCHANGED <<dbStatus, dbEvals, ca, allocVars, perfVars, appVars>>

\* openAI.evaluateProposal(proposal.content) answers with a score, or fails
EvaluateProposal(i, s) ==
  /\ dm[i].call.phase = "oracle"
  /\ \/ dm' = [dm EXCEPT ![i].call.phase = "scored", ![i].call.score = s]
     \/ dm' = [dm EXCEPT ![i].call.phase = "failed"]
  /\ UNCHANGED <<dbStatus, dbEvals, ca, allocVars, perfVars, appVars>>

\* handleEvaluate falling back to a default score when the oracle failed
EvaluateScoredDefault(i) ==
  /\ dm[i].call.phase \in {"scored", "failed"}
  /\ dm' = [dm EXCEPT ![i] =
       IF dm[i].call.phase = "scored" THEN [@ EXCEPT !.call.phase = "save"]
       ELSE [@ EXCEPT !.call.phase = "save", !.call.score = 0]]
  /\ UNCHANGED <<dbStatus, dbEvals, ca, allocVars, perfVars, appVars>>

\* handleEvaluate after the first await: saveEvaluation is issued, or catch
\* and finally run
EvaluateScored(i) ==
  /\ dm[i].call.phase \in {"scored", "failed"}
  /\ dm' = [dm EXCEPT ![i] =
       IF dm[i].call.phase = "scored" THEN [@ EXCEPT !.call.phase = "save"]
       ELSE IF ~dm[i].mounted THEN [@ EXCEPT !.call = NoDmCall]
       ELSE [@ EXCEPT !.error = "Error evaluating proposal: Evaluation failed",
                      !.isEvaluating = FALSE, !.call = NoDmCall]]
  /\ UNCHANGED <<dbStatus, dbEvals, ca, allocVars, perfVars, appVars>>

\* database.saveEvaluation(proposalId, result.score, result.explanation) is
\* served
SaveEvaluation(i) ==
  /\ dm[i].call.phase = "save"
  /\ \/ /\ InsertEvaluation(dm[i].call.pid, dm[i].call.score, i)
        /\ dm' = [dm EXCEPT ![i].call.phase = "saved"]
     \/ /\ dm' = [dm EXCEPT ![i].call.phase = "unsaved"]
        /\ UNCHANGED dbEvals
  /\ UNCHANGED <<dbStatus, ca, allocVars, perfVars, appVars>>

\* handleEvaluate after the second await: setEvaluation(result), or catch;
\* finally
EvaluateDone(i) ==
  /\ dm[i].call.phase \in {"saved", "unsaved"}
  /\ dm' = [dm EXCEPT ![i] =
       IF ~dm[i].mounted THEN [@ EXCEPT !.call = NoDmCall]
       ELSE IF dm[i].call.phase = "saved"
       THEN [@ EXCEPT !.evaluation = [score |-> dm[i].call.score],
                      !.isEvaluating = FALSE, !.call = NoDmCall]
       ELSE [@ EXCEPT !.error = "Error evaluating proposal: Database error",
                      !.isEvaluating = FALSE, !.call = NoDmCall]]
  /\ UNCHANGED <<dbStatus, dbEvals, ca, allocVars, perfVars, appVars>>

\* ------------------------------------------------------------ environment
\* another client's saveProposal creates the proposal row, status pending
SaveProposal(p) ==
  /\ dbStatus[p] = "absent"
  /\ dbStatus' = [dbStatus EXCEPT ![p] = "pending"]
  /\ UNCHANGED <<dbEvals, ca, dm, allocVars, perfVars, appVars>>

\* another client's saveEvaluation inserts a row
EvaluationSaved(p, s) ==
  /\ InsertEvaluation(p, s, 0)
  /\ UNCHANGED <<dbStatus, ca, dm, allocVars, perfVars, appVars>>

\* ------------------------------------------------- TaskAllocation component
\* a task description is a string over DescChars; taskDescription.trim()
\* removes the whitespace at both ends
Descriptions == UNION {[1..n -> DescChars] : n \in 0..MaxDescLen}

RECURSIVE TrimStart(_)
TrimStart(s) ==
  IF s # <<>> /\ Head(s) = " " THEN TrimStart(Tail(s)) ELSE s

RECURSIVE TrimEnd(_)
TrimEnd(s) ==
  IF s # <<>> /\ s[Len(s)] = " " THEN TrimEnd(SubSeq(s, 1, Len(s) - 1)) ELSE s

Trim(s) == TrimEnd(TrimStart(s))

\* the tasks rows assigned to agent a
ActiveTaskCount(a) ==
  Cardinality({k \in 1..Len(dbTasks) : dbTasks[k].assignedAgentId = a})

\* workload.agent: the agent the figures were fetched for (recorded for the
\* properties; the component keeps only the figures)
NoWorkload == [agent |-> 0, activeTaskCount |-> -1]
NoTaCall ==
  [phase |-> "none", description |-> <<>>, candidates |-> {}, agentId |-> 0]

TaUnmounted ==
  [mounted |-> FALSE, taskDescription |-> <<>>, agents |-> {},
   selectedAgent |-> 0, workload |-> NoWorkload, error |-> "", success |-> "",
   isAllocating |-> FALSE, load |-> [st |-> "none", rows |-> {}],
   fetches |-> {}, call |-> NoTaCall]

\* first render and useEffect([]): loadAgents is issued, once. (The component
\* is mounted again only once the handleSubmit of its earlier mount has
\* completed.)
TaMount ==
  /\ ~ta.mounted
  /\ ta.call.phase = "none"
  /\ ta' = [TaUnmounted EXCEPT !.mounted = TRUE, !.load.st = "wait"]
  /\ UNCHANGED <<proposalVars, dbAgents, dbTasks, perfVars, appVars>>

\* the parent stops rendering the component; handleSubmit, once started,
\* runs on
TaUnmount ==
  /\ ta.mounted
  /\ ta' = [TaUnmounted EXCEPT !.call = ta.call]
  /\ UNCHANGED <<proposalVars, dbAgents, dbTasks, perfVars, appVars>>

\* database.getAgents() is served
GetAgents ==
  /\ ta.load.st = "wait"
  /\ \/ ta' = [ta EXCEPT !.load = [st |-> "ok", rows |-> dbAgents]]
     \/ ta' = [ta EXCEPT !.load.st = "fail"]
  /\ UNCHANGED <<proposalVars, dbAgents, dbTasks, perfVars, appVars>>

\* the continuation of loadAgents
loadAgents ==
  /\ ta.load.st \in {"ok", "fail"}
  /\ ta' = IF ta.load.st = "ok"
           THEN [ta EXCEPT !.agents = ta.load.rows,
                           !.load = [st |-> "done", rows |-> {}]]
           ELSE [ta EXCEPT !.error = "Error loading agents",
                           !.load = [st |-> "done", rows |-> {}]]
  /\ UNCHANGED <<proposalVars, dbAgents, dbTasks, perfVars, appVars>>

\* onChange of the textarea, which is disabled while isAllocating
SetTaskDescription(d) ==
  /\ ta.mounted
  /\ ~ta.isAllocating
  /\ d # ta.taskDescription
  /\ ta' = [ta EXCEPT !.taskDescription = d]
  /\ UNCHANGED <<proposalVars, dbAgents, dbTasks, perfVars, appVars>>

\* onClick of the card of agent a: handleAgentClick up to the await
handleAgentClick(a) ==
  /\ ta.mounted
  /\ a \in ta.agents
  /\ Cardinality(ta.fetches) < MaxFetches
  /\ ta' = [ta EXCEPT !.selectedAgent = a,
                      !.fetches = @ \union
                         {[agent |-> a, st |-> "wait", activeTaskCount |-> -1]}]
  /\ UNCHANGED <<proposalVars, dbAgents, dbTasks, perfVars, appVars>>

\* database.getAgentWorkload(agent.id) is served
GetAgentWorkload(f) ==
  /\ f \in ta.fetches
  /\ f.st = "wait"
  /\ \/ ta' = [ta EXCEPT !.fetches = (@ \ {f}) \union
                 {[f EXCEPT !.st = "ok",
                            !.activeTaskCount = ActiveTaskCount(f.agent)]}]
     \/ ta' = [ta EXCEPT !.fetches = (@ \ {f}) \union {[f EXCEPT !.st = "fail"]}]
  /\ UNCHANGED <<proposalVars, dbAgents, dbTasks, perfVars, appVars>>

\* handleAgentClick after the await: setWorkload, or catch
AgentWorkloadLoaded(f) ==
  /\ f \in ta.fetches
  /\ f.st # "wait"
  /\ ta' = IF f.st = "ok"
           THEN [ta EXCEPT !.fetches = @ \ {f},
                           !.workload = [agent |-> f.agent,
                                         activeTaskCount |-> f.activeTaskCount]]
           ELSE [ta EXCEPT !.fetches = @ \ {f},
                           !.error = "Error loading agent workload"]
  /\ UNCHANGED <<proposalVars, dbAgents, dbTasks, perfVars, appVars>>

\* handleSubmit testing the description without trim()
handleSubmitUntrimmed ==
  /\ ta.mounted
  /\ ~ta.isAllocating
  /\ ta' = IF ta.taskDescription = <<>>
           THEN [ta EXCEPT !.error = "Please enter a task description",
                           !.success = ""]
           ELSE [ta EXCEPT !.error = "", !.success = "", !.isAllocating = TRUE,
                           !.call = [phase |-> "match",
                                     description |-> ta.taskDescription,
                                     candidates |-> ta.agents, agentId |-> 0]]
  /\ UNCHANGED <<proposalVars, dbAgents, dbTasks, perfVars, appVars>>

\* onClick of Allocate Task, disabled while isAllocating: handleSubmit up to
\* the return of the validation, or up to the await of openAI.matchTask. The
\* candidates are the agents state of the render that was clicked.
handleSubmit ==
  /\ ta.mounted
  /\ ~ta.isAllocating
  /\ ta' = IF Trim(ta.taskDescription) = <<>>
           THEN [ta EXCEPT !.error = "Please enter a task description",
                           !.success = ""]
           ELSE [ta EXCEPT !.error = "", !.success = "", !.isAllocating = TRUE,
                           !.call = [phase |-> "match",
                                     description |-> ta.taskDescription,
                                     candidates |-> ta.agents, agentId |-> 0]]
  /\ UNCHANGED <<proposalVars, dbAgents, dbTasks, perfVars, appVars>>

\* openAI.matchTask(taskDescription, agents) answers with an agent id, which
\* the language model is free to choose, or fails
MatchTask(a) ==
  /\ ta.call.phase = "match"
  /\ \/ ta' = [ta EXCEPT !.call.phase = "matched", !.call.agentId = a]
     \/ ta' = [ta EXCEPT !.call.phase = "matchFailed"]
  /\ UNCHANGED <<proposalVars, dbAgents, dbTasks, perfVars, appVars>>

\* the lowest id of a set of agent ids
LowestId(S) == CHOOSE a \in S : \A b \in S : a <= b

\* handleSubmit without the finally block on a failure of matchTask
TaskMatchedStuck ==
  /\ ta.call.phase \in {"matched", "matchFailed"}
  /\ ta' = IF ta.call.phase = "matched" THEN [ta EXCEPT !.call.phase = "save"]
           ELSE IF ~ta.mounted THEN [ta EXCEPT !.call = NoTaCall]
           ELSE [ta EXCEPT !.error = "Error allocating task: Matching failed",
                           !.call = NoTaCall]
  /\ UNCHANGED <<proposalVars, dbAgents, dbTasks, perfVars, appVars>>

\* handleSubmit going on with the first candidate when matchTask failed
TaskMatchedFallback ==
  /\ ta.call.phase \in {"matched", "matchFailed"}
  /\ ta' = IF ta.call.phase = "matched" THEN [ta EXCEPT !.call.phase = "save"]
           ELSE IF ta.call.candidates = {} THEN [ta EXCEPT !.call = NoTaCall]
           ELSE [ta EXCEPT !.call.phase = "save",
                           !.call.agentId = LowestId(ta.call.candidates)]
  /\ UNCHANGED <<proposalVars, dbAgents, dbTasks, perfVars, appVars>>

\* handleSubmit after the first await: saveTask is issued with match.agentId,
\* or catch and finally run
TaskMatched ==
  /\ ta.call.phase \in {"matched", "matchFailed"}
  /\ ta' = IF ta.call.phase = "matched" THEN [ta EXCEPT !.call.phase = "save"]
           ELSE IF ~ta.mounted THEN [ta EXCEPT !.call = NoTaCall]
           ELSE [ta EXCEPT !.error = "Error allocating task: Matching failed",
                           !.isAllocating = FALSE, !.call = NoTaCall]
  /\ UNCHANGED <<proposalVars, dbAgents, dbTasks, perfVars, appVars>>

\* database.saveTask(taskDescription, match.agentId, match.explanation) is
\* served: INSERT INTO tasks, assigned_agent_id REFERENCES agents(id)
SaveTask ==
  /\ ta.call.phase = "save"
  /\ \/ /\ ta.call.agentId \in dbAgents
        /\ dbTasks' = Append(dbTasks, [description |-> ta.call.description,
                                       assignedAgentId |-> ta.call.agentId])
        /\ ta' = [ta EXCEPT !.call.phase = "saved"]
     \/ /\ ta' = [ta EXCEPT !.call.phase = "unsaved"]
        /\ UNCHANGED dbTasks
  /\ UNCHANGED <<proposalVars, dbAgents, perfVars, appVars>>

\* handleSubmit reporting success whether or not saveTask succeeded
TaskSavedOptimistic ==
  /\ ta.call.phase \in {"saved", "unsaved"}
  /\ ta' = IF ~ta.mounted THEN [ta EXCEPT !.call = NoTaCall]
           ELSE [ta EXCEPT !.success = "Task allocated successfully",
                           !.selectedAgent = ta.call.agentId,
                           !.taskDescription = <<>>,
                           !.isAllocating = FALSE, !.call = NoTaCall]
  /\ UNCHANGED <<proposalVars, dbAgents, dbTasks, perfVars, appVars>>

\* handleSubmit after the second await: agents.find, then setSuccess,
\* setSelectedAgent and setTaskDescription(''), or catch; finally
TaskSaved ==
  /\ ta.call.phase \in {"saved", "unsaved"}
  /\ ta' = IF ~ta.mounted THEN [ta EXCEPT !.call = NoTaCall]
           ELSE IF ta.call.phase = "unsaved"
           THEN [ta EXCEPT !.error = "Error allocating task: Database error",
                           !.isAllocating = FALSE, !.call = NoTaCall]
           ELSE IF ta.call.agentId \notin ta.call.candidates
           THEN [ta EXCEPT !.error = "Error allocating task: Matched agent not found",
                           !.isAllocating = FALSE, !.call = NoTaCall]
           ELSE [ta EXCEPT !.success = "Task allocated successfully",
                           !.selectedAgent = ta.call.agentId,
                           !.taskDescription = <<>>,
                           !.isAllocating = FALSE, !.call = NoTaCall]
  /\ UNCHANGED <<proposalVars, dbAgents, dbTasks, perfVars, appVars>>

\* another client registers agent a
AgentAdded(a) ==
  /\ a \notin dbAgents
  /\ dbAgents' = dbAgents \union {a}
  /\ UNCHANGED <<proposalVars, dbTasks, ta, perfVars, appVars>>

\* another client deletes agent a, which no tasks row references
AgentRemoved(a) ==
  /\ a \in dbAgents
  /\ ActiveTaskCount(a) = 0
  /\ dbAgents' = dbAgents \ {a}
  /\ UNCHANGED <<proposalVars, dbTasks, ta, perfVars, appVars>>

\* ------------------------------------------ PerformanceMonitoring component
\* the snapshots getPerformanceMetrics can return for date range r: counts
\* of proposals, of tasks and of agents. range is the date range the snapshot
\* was computed for (recorded for the properties).
Counts == 0..MaxCount

Snapshots(r) ==
  {m \in [range : {r}, proposals : [total : Counts, accepted : Counts],
          tasks : [total : Counts, completed : Counts, inProgress : Counts],
          agents : Counts] :
     /\ m.proposals.accepted <= m.proposals.total
     /\ m.tasks.completed + m.tasks.inProgress <= m.tasks.total}

NoPmMetrics ==
  [range |-> 0, proposals |-> [total |-> 0, accepted |-> 0],
   tasks |-> [total |-> 0, completed |-> 0, inProgress |-> 0], agents |-> 0]

PmUnmounted ==
  [mounted |-> FALSE, metrics |-> NoPmMetrics, error |-> "",
   currentView |-> "overview", dateRange |-> 1, loads |-> {}]

PmNewLoad(r) == [range |-> r, st |-> "wait", metrics |-> NoPmMetrics]

\* first render and useEffect: dateRange is the last month, loadMetrics is
\* issued
PmMount ==
  /\ ~pm.mounted
  /\ pm' = [PmUnmounted EXCEPT !.mounted = TRUE, !.loads = {PmNewLoad(1)}]
  /\ UNCHANGED <<proposalVars, allocVars, appVars>>

PmUnmount ==
  /\ pm.mounted
  /\ pm' = PmUnmounted
  /\ UNCHANGED <<proposalVars, allocVars, appVars>>

\* onChange of a date input: setDateRange, then useEffect([dateRange]) calls
\* loadMetrics
SetDateRange(r) ==
  /\ pm.mounted
  /\ r # pm.dateRange
  /\ Cardinality(pm.loads) < MaxPmLoads
  /\ pm' = [pm EXCEPT !.dateRange = r, !.loads = @ \union {PmNewLoad(r)}]
  /\ UNCHANGED <<proposalVars, allocVars, appVars>>

\* onClick of Apply Filter: loadMetrics with the dateRange of the render
ApplyFilter ==
  /\ pm.mounted
  /\ Cardinality(pm.loads) < MaxPmLoads
  /\ pm' = [pm EXCEPT !.loads = @ \union {PmNewLoad(pm.dateRange)}]
  /\ UNCHANGED <<proposalVars, allocVars, appVars>>

\* onClick of a view button
SetCurrentView(v) ==
  /\ pm.mounted
  /\ v # pm.currentView
  /\ pm' = [pm EXCEPT !.currentView = v]
  /\ UNCHANGED <<proposalVars, allocVars, appVars>>

\* database.getPerformanceMetrics(dateRange) is served with snapshot m, or
\* fails
GetPerformanceMetrics(l, m) ==
  /\ l \in pm.loads
  /\ l.st = "wait"
  /\ m.range = l.range
  /\ \/ pm' = [pm EXCEPT !.loads = (@ \ {l}) \union
                           {[l EXCEPT !.st = "ok", !.metrics = m]}]
     \/ pm' = [pm EXCEPT !.loads = (@ \ {l}) \union {[l EXCEPT !.st = "fail"]}]
  /\ UNCHANGED <<proposalVars, allocVars, appVars>>

\* the continuation of loadMetrics
loadMetrics(l) ==
  /\ l \in pm.loads
  /\ l.st # "wait"
  /\ pm' = IF l.st = "ok"
           THEN [pm EXCEPT !.loads = @ \ {l}, !.metrics = l.metrics,
                           !.error = ""]
           ELSE [pm EXCEPT !.loads = @ \ {l},
                           !.error = "Error loading performance metrics"]
  /\ UNCHANGED <<proposalVars, allocVars, appVars>>

\* Math.round((part / total) * 100): 0 / 0 is NaN, and part / 0 is Infinity
\* for part > 0; Math.round keeps both. Otherwise the nearest integer, a
\* half rounding up.
RoundedPercent(part, total) ==
  IF total = 0
  THEN [kind |-> IF part = 0 THEN "NaN" ELSE "Infinity", value |-> 0]
  ELSE [kind |-> "number", value |-> (200 * part + total) \div (2 * total)]

\* part / total as JavaScript computes it: a number (kept as a fraction),
\* NaN for 0 / 0, Infinity for part / 0 with part > 0
Quotient(part, total) ==
  IF total = 0
  THEN [kind |-> IF part = 0 THEN "NaN" ELSE "Infinity", num |-> 0, den |-> 1]
  ELSE [kind |-> "number", num |-> part, den |-> total]

\* q < n: false when q is NaN or Infinity
Less(q, n) == q.kind = "number" /\ q.num < n * q.den

\* getResourceUtilization, with metrics.agents.length held as the count
getResourceUtilization(m) ==
  IF m = NoPmMetrics THEN "Low"
  ELSE LET utilizationRate == Quotient(m.tasks.inProgress, m.agents)
       IN  IF Less(utilizationRate, 1) THEN "Low"
           ELSE IF Less(utilizationRate, 2) THEN "Medium"
           ELSE "High"

\* the snapshot of date range r used where the counts do not matter
WindowSnapshots(r) ==
  {m \in Snapshots(r) :
     /\ m.proposals = [total |-> 1, accepted |-> 1]
     /\ m.tasks = [total |-> 1, completed |-> 1, inProgress |-> 0]
     /\ m.agents = 1}

\* the Proposal Success Rate and Task Completion Rate of the overview
ProposalSuccessRate(m) == RoundedPercent(m.proposals.accepted, m.proposals.total)
TaskCompletionRate(m) == RoundedPercent(m.tasks.completed, m.tasks.total)

\* ------------------------------------------------- AgentNetwork and App
\* AgentNetwork.tsx holds two variants of the component: the first (lines
\* 1-140) uses module-level services, the second (lines 142-310) takes the
\* services as props.  Which one a build renders is not fixed by the source,
\* so the variant is chosen when App is constructed.
Variants == {1, 2}

\* the service props of the second variant: none (as App renders it), the
\* database only, or both; the first variant always has both
Services == {"none", "database", "both"}

\* what generateProposal can return: empty or non-empty content
Contents == {"", "text"}

GenSlots == 1..MaxGenerates

\* phases of a handleGenerateProposal call: "oracle" generateProposal in
\* flight, "generated"/"failed" its answer, "save" saveProposal in flight,
\* "saved"/"unsaved" its answer; live: the component instance that made the
\* call is still mounted
NoGen == [phase |-> "none", content |-> "", pid |-> 0, live |-> FALSE]

AnUnmounted(v, s) ==
  [mounted |-> FALSE, variant |-> v, services |-> s, topic |-> <<>>,
   selectedSpecialty |-> "", proposal |-> "", error |-> "", success |-> FALSE,
   agents |-> {}, isLoading |-> TRUE, isInitialized |-> FALSE,
   load |-> [st |-> "none", rows |-> {}]]

\* the state after the first render and its effect: the first variant always
\* loads the agents, the second only with a databaseService
AnMounted(v, s) ==
  [AnUnmounted(v, s) EXCEPT
     !.mounted = TRUE,
     !.load = [st |-> IF v = 1 \/ s # "none" THEN "sent" ELSE "none",
               rows |-> {}]]

\* getAgents served for AgentNetwork
AnGetAgents ==
  /\ an.load.st = "sent"
  /\ \E ok \in BOOLEAN :
       an' = [an EXCEPT !.load = IF ok THEN [st |-> "ok", rows |-> dbAgents]
                                       ELSE [st |-> "err", rows |-> {}]]
  /\ UNCHANGED <<proposalVars, allocVars, perfVars, app, gen>>

\* the continuation of loadAgents; all agents share the specialty "general"
AnLoadAgents ==
  /\ an.load.st \in {"ok", "err"}
  /\ an' = [an EXCEPT
       !.load = [st |-> "done", rows |-> {}],
       !.agents = an.load.rows,
       !.selectedSpecialty =
          IF an.variant = 1 /\ an.load.st = "ok" /\ an.load.rows # {}
          THEN "general" ELSE @,
       !.error = IF an.load.st = "err" THEN "Error loading agents"
                 ELSE IF an.variant = 2 THEN "" ELSE @,
       !.isLoading = FALSE,
       !.isInitialized = IF an.variant = 2 THEN TRUE ELSE @]
  /\ UNCHANGED <<proposalVars, allocVars, perfVars, app, gen>>

SetTopic(t) ==
  /\ an.mounted
  /\ an' = [an EXCEPT !.topic = t]
  /\ UNCHANGED <<proposalVars, allocVars, perfVars, app, gen>>

\* the options of the specialty select
SpecialtyOptions ==
  {""} \cup (IF ~an.isLoading /\ an.agents # {} THEN {"general"} ELSE {})

SetSelectedSpecialty(s) ==
  /\ an.mounted
  /\ an.variant = 2 => ~an.isLoading
  /\ s \in SpecialtyOptions
  /\ an' = [an EXCEPT !.selectedSpecialty = s]
  /\ UNCHANGED <<proposalVars, allocVars, perfVars, app, gen>>

\* the Generate Proposal button is not disabled
GenerateEnabled ==
  IF an.variant = 1
  THEN Trim(an.topic) # <<>> /\ an.selectedSpecialty # ""
  ELSE ~an.isLoading /\ an.isInitialized

FreeSlot(k) ==
  /\ gen[k].phase = "none"
  /\ \A j \in GenSlots : j < k => gen[j].phase # "none"

\* handleGenerateProposal up to its first await
handleGenerateProposal(k) ==
  /\ an.mounted
  /\ GenerateEnabled
  /\ FreeSlot(k)
  /\ LET reset == [an EXCEPT !.error = "", !.success = FALSE, !.proposal = ""]
         invalid ==
           IF Trim(an.topic) = <<>> THEN "Please enter a proposal topic"
           ELSE IF an.selectedSpecialty = ""
                THEN "Please select an agent specialty"
           ELSE IF an.variant = 2 /\ an.services # "both"
                THEN "Services not initialized"
           ELSE ""
     IN IF invalid # ""
        THEN /\ an' = [reset EXCEPT !.error = invalid]
             /\ gen' = gen
        ELSE /\ an' = [reset EXCEPT
                         !.isLoading = IF an.variant = 2 THEN TRUE ELSE @]
             /\ gen' = [gen EXCEPT ![k] = [NoGen EXCEPT !.phase = "oracle",
                                                        !.live = TRUE]]
  /\ UNCHANGED <<proposalVars, allocVars, perfVars, app>>

\* generateProposal served: content c, or a rejection
GenerateProposal(k, c) ==
  /\ gen[k].phase = "oracle"
  /\ gen' = [gen EXCEPT ![k].phase = "generated", ![k].content = c]
  /\ UNCHANGED <<proposalVars, allocVars, perfVars, app, an>>

GenerateProposalFails(k) ==
  /\ gen[k].phase = "oracle"
  /\ gen' = [gen EXCEPT ![k].phase = "failed"]
  /\ UNCHANGED <<proposalVars, allocVars, perfVars, app, an>>

\* the catch and finally blocks; setState of an unmounted instance is a no-op
GenerateFailed(k, msg) ==
  IF gen[k].live
  THEN [an EXCEPT
          !.error = msg,
          !.success = IF an.variant = 2 THEN FALSE ELSE @,
          !.proposal = IF an.variant = 2 THEN "" ELSE @,
          !.isLoading = IF an.variant = 2 THEN FALSE ELSE @]
  ELSE an

\* the second variant, which stops on empty content; the first variant goes
\* on to saveProposal with whatever generateProposal returned
StopsOnEmptyContent(k) == an.variant = 2 /\ gen[k].content = ""

\* handleGenerateProposal between its two awaits
ProposalGenerated(k) ==
  /\ gen[k].phase \in {"generated", "failed"}
  /\ IF gen[k].phase = "failed"
     THEN /\ an' = GenerateFailed(k, "Error generating proposal: Generation failed")
          /\ gen' = [gen EXCEPT ![k] = NoGen]
     ELSE IF StopsOnEmptyContent(k)
     THEN /\ an' = IF gen[k].live
                   THEN [an EXCEPT !.error = "Failed to generate proposal",
                                   !.isLoading = FALSE]
                   ELSE an
          /\ gen' = [gen EXCEPT ![k] = NoGen]
     ELSE /\ gen' = [gen EXCEPT ![k].phase = "save"]
          /\ an' = an
  /\ UNCHANGED <<proposalVars, allocVars, perfVars, app>>

\* saveProposal served for this session: a new proposals row with a fresh id
SaveGeneratedProposal(k, p) ==
  /\ gen[k].phase = "save"
  /\ dbStatus[p] = "absent"
  /\ dbStatus' = [dbStatus EXCEPT ![p] = "pending"]
  /\ gen' = [gen EXCEPT ![k].phase = "saved", ![k].pid = p]
  /\ app' = [app EXCEPT !.lastCreated = p]
  /\ UNCHANGED <<dbEvals, ca, dm, allocVars, perfVars, an>>

SaveGeneratedProposalFails(k) ==
  /\ gen[k].phase = "save"
  /\ gen' = [gen EXCEPT ![k].phase = "unsaved"]
  /\ UNCHANGED <<proposalVars, allocVars, perfVars, app, an>>

\* handleGenerateProposal after saveProposal: onProposalCreated is App's
\* setSelectedProposalId, which acts whether or not AgentNetwork is mounted
ProposalSaved(k) ==
  /\ gen[k].phase \in {"saved", "unsaved"}
  /\ IF gen[k].phase = "saved"
     THEN /\ an' = IF gen[k].live
                   THEN [an EXCEPT
                           !.proposal = gen[k].content,
                           !.success = TRUE,
                           !.isLoading = IF an.variant = 2 THEN FALSE ELSE @]
                   ELSE an
          /\ app' = [app EXCEPT !.selectedProposalId = gen[k].pid]
     ELSE /\ an' = GenerateFailed(k, "Error generating proposal: Database error")
          /\ app' = app
  /\ gen' = [gen EXCEPT ![k] = NoGen]
  /\ UNCHANGED <<proposalVars, allocVars, perfVars>>

AppViews == {"agents", "decisions", "consensus", "tasks", "performance"}

\* a navigation button: setCurrentView(v); AgentNetwork is rendered in the
\* agents view only, so it is mounted on entering and unmounted on leaving it
AppSetCurrentView(v) ==
  /\ app' = [app EXCEPT !.currentView = v]
  /\ IF v = "agents" /\ app.currentView # "agents"
     THEN /\ an' = AnMounted(an.variant, an.services)
          /\ gen' = gen
     ELSE IF v # "agents" /\ app.currentView = "agents"
     THEN /\ an' = AnUnmounted(an.variant, an.services)
          /\ gen' = [k \in GenSlots |-> [gen[k] EXCEPT !.live = FALSE]]
     ELSE UNCHANGED <<an, gen>>
  /\ UNCHANGED <<proposalVars, allocVars, perfVars>>

\* the proposalId prop DecisionMaking / ConsensusAlgorithm is rendered with,
\* 0 when App does not render it
DecisionMakingProp ==
  IF app.currentView = "decisions" /\ app.selectedProposalId # 0
  THEN app.selectedProposalId ELSE 0

ConsensusAlgorithmProp ==
  IF app.currentView = "consensus" /\ app.selectedProposalId # 0
  THEN app.selectedProposalId ELSE 0

AppConstructed == [currentView |-> "agents", selectedProposalId |-> 0,
                   lastCreated |-> 0]

\* --------------------------------------------------------- specifications
Init ==
  /\ dbStatus = [p \in ProposalIds |-> IF p = 1 THEN "pending" ELSE "absent"]
  /\ dbEvals = [p \in ProposalIds |-> <<>>]
  /\ ca = [i \in Instances |-> Unmounted]
  /\ dm = [i \in Instances |-> DmUnmounted]
  /\ dbAgents = {1}
  /\ dbTasks = <<>>
  /\ ta = TaUnmounted
  /\ pm = PmUnmounted
  /\ app = AppConstructed
  /\ an = AnMounted(1, "both")
  /\ gen = [k \in GenSlots |-> NoGen]

\* the steps of ConsensusAlgorithm instance i
ConsensusStep(i) ==
  \/ Unmount(i)
  \/ \E l \in ca[i].loads : GetProposal(i, l)
  \/ \E l \in ca[i].loads : GetEvaluations(i, l)
  \/ \E l \in ca[i].loads : LoadDone(i, l)
  \/ calculateConsensus(i)
  \/ UpdateProposalStatus(i)
  \/ ConsensusDone(i)

\* Spec: ConsensusAlgorithm instances, mounted and remounted on any proposal
\* id, deciding concurrently while evaluations arrive
Next ==
  \/ \E p \in ProposalIds : SaveProposal(p)
  \/ \E p \in ProposalIds, s \in Scores :
       TotalEvals < MaxEvals /\ EvaluationSaved(p, s)
  \/ \E i \in Instances, p \in ProposalIds : Mount(i, p)
  \/ \E i \in Instances : ConsensusStep(i)

Spec == Init /\ [][Next]_vars

\* SpecProp: one ConsensusAlgorithm instance whose proposalId prop changes
\* while it is mounted
NextProp ==
  \/ \E p \in ProposalIds : SaveProposal(p)
  \/ \E p \in ProposalIds, s \in PropScores :
       TotalEvals < MaxEvals /\ EvaluationSaved(p, s)
  \/ \E p \in ProposalIds : Mount(1, p)
  \/ \E p \in ProposalIds : SetProposalId(1, p)
  \/ ConsensusStep(1)

SpecProp == Init /\ [][NextProp]_vars

\* SpecCalc: one ConsensusAlgorithm instance on proposal 1, over every
\* sequence of at most MaxCalcEvals scores of CalcScores
NextCalc ==
  \/ \E s \in CalcScores : TotalEvals < MaxCalcEvals /\ EvaluationSaved(1, s)
  \/ Mount(1, 1)
  \/ ConsensusStep(1)

SpecCalc == Init /\ [][NextCalc]_vars

\* the steps of DecisionMaking instance i
EvaluateStep(i) ==
  \/ DmUnmount(i)
  \/ \E l \in dm[i].loads : DmGetProposal(i, l)
  \/ \E l \in dm[i].loads : DmLoadDone(i, l)
  \/ handleEvaluate(i)
  \/ \E s \in Scores : EvaluateProposal(i, s)
  \/ EvaluateScored(i)
  \/ TotalEvals < MaxEvals /\ SaveEvaluation(i)
  \/ EvaluateDone(i)

\* SpecEvaluate: DecisionMaking instances, mounted and remounted on any
\* proposal id, evaluating concurrently
NextEvaluate ==
  \/ \E p \in ProposalIds : SaveProposal(p)
  \/ \E i \in Instances, p \in ProposalIds : DmMount(i, p)
  \/ \E i \in Instances : EvaluateStep(i)

SpecEvaluate == Init /\ [][NextEvaluate]_vars

\* SpecEvaluateProp: one DecisionMaking instance whose proposalId prop
\* changes while it is mounted
NextEvaluateProp ==
  \/ \E p \in ProposalIds : SaveProposal(p)
  \/ \E p \in ProposalIds : DmMount(1, p)
  \/ \E p \in ProposalIds : DmSetProposalId(1, p)
  \/ EvaluateStep(1)

SpecEvaluateProp == Init /\ [][NextEvaluateProp]_vars

\* SpecAllocate: the TaskAllocation component, mounted and remounted, while
\* other clients register and delete agents
NextAllocate ==
  \/ \E a \in AgentIds : AgentAdded(a)
  \/ \E a \in AgentIds : AgentRemoved(a)
  \/ TaMount
  \/ TaUnmount
  \/ GetAgents
  \/ loadAgents
  \/ \E d \in Descriptions : SetTaskDescription(d)
  \/ \E a \in AgentIds : handleAgentClick(a)
  \/ \E f \in ta.fetches : GetAgentWorkload(f)
  \/ \E f \in ta.fetches : AgentWorkloadLoaded(f)
  \/ handleSubmit
  \/ \E a \in AgentIds : MatchTask(a)
  \/ TaskMatched
  \/ Len(dbTasks) < MaxTasks /\ SaveTask
  \/ TaskSaved

SpecAllocate == Init /\ [][NextAllocate]_vars

\* SpecRates: the PerformanceMonitoring component loading the metrics of its
\* first date range, over every snapshot with counts up to MaxCount
NextRates ==
  \/ PmMount
  \/ PmUnmount
  \/ \E v \in Views : SetCurrentView(v)
  \/ \E l \in pm.loads, m \in Snapshots(1) : GetPerformanceMetrics(l, m)
  \/ \E l \in pm.loads : loadMetrics(l)

SpecRates == Init /\ [][NextRates]_vars

\* SpecPerf: the PerformanceMonitoring component while the date range is
\* changed and Apply Filter is clicked, its loads completing in any order
NextPerf ==
  \/ PmMount
  \/ PmUnmount
  \/ \E r \in Ranges : SetDateRange(r)
  \/ ApplyFilter
  \/ \E v \in Views : SetCurrentView(v)
  \/ \E l \in pm.loads :
       \E m \in WindowSnapshots(l.range) : GetPerformanceMetrics(l, m)
  \/ \E l \in pm.loads : loadMetrics(l)

SpecPerf == Init /\ [][NextPerf]_vars

\* SpecApp: App from its construction with an empty proposals table, with
\* either variant of AgentNetwork and any service props
InitApp ==
  /\ dbStatus = [p \in ProposalIds |-> "absent"]
  /\ dbEvals = [p \in ProposalIds |-> <<>>]
  /\ ca = [i \in Instances |-> Unmounted]
  /\ dm = [i \in Instances |-> DmUnmounted]
  /\ dbAgents = {1}
  /\ dbTasks = <<>>
  /\ ta = TaUnmounted
  /\ pm = PmUnmounted
  /\ app = AppConstructed
  /\ \E v \in Variants : \E s \in Services :
       /\ v = 1 => s = "both"
       /\ an = AnMounted(v, s)
  /\ gen = [k \in GenSlots |-> NoGen]

NextApp ==
  \/ \E v \in AppViews : AppSetCurrentView(v)
  \/ AnGetAgents
  \/ AnLoadAgents
  \/ \E t \in Descriptions : SetTopic(t)
  \/ \E s \in {"", "general"} : SetSelectedSpecialty(s)
  \/ \E k \in GenSlots : handleGenerateProposal(k)
  \/ \E k \in GenSlots : \E c \in Contents : GenerateProposal(k, c)
  \/ \E k \in GenSlots : GenerateProposalFails(k)
  \/ \E k \in GenSlots : ProposalGenerated(k)
  \/ \E k \in GenSlots : \E p \in ProposalIds : SaveGeneratedProposal(k, p)
  \/ \E k \in GenSlots : SaveGeneratedProposalFails(k)
  \/ \E k \in GenSlots : ProposalSaved(k)

SpecApp == InitApp /\ [][NextApp]_vars

\* ------------------------------------------------------------- properties
\* instance i issues updateProposalStatus in this step
Issues(i) == ca[i].call.phase # "sent" /\ ca'[i].call.phase = "sent"

\* the repository has applied the update of call c
Applied(c) == c.phase \in {"ok", "reported"}

\* C1: once the stored status of a proposal is accepted or rejected, no
\* later operation changes it.
C1_TerminalStatusIsFinal ==
  [][\A p \in ProposalIds :
       dbStatus[p] \in Terminal => dbStatus'[p] = dbStatus[p]]_vars

\* C2: of two Decide calls in flight together on the same proposal, at most
\* one commit is applied, and once both have completed the two callers hold
\* the same status.
C2_ConcurrentDecidesConverge ==
  \A i, j \in Instances :
    (i # j /\ j \in ca[i].call.raced /\ ca[i].call.pid = ca[j].call.pid)
    => /\ ~(Applied(ca[i].call) /\ Applied(ca[j].call))
       /\ (ca[i].call.phase = "reported" /\ ca[j].call.phase = "reported")
          => ca[i].proposal.status = ca[j].proposal.status

\* C3: when a Decide call completes and shows 'Consensus Reached', the status
\* it shows is the status stored for that proposal at that moment.
C3_ReportedStatusIsStoredStatus ==
  [][\A i \in Instances :
       (ca[i].call.phase # "reported" /\ ca'[i].call.phase = "reported")
       => ca'[i].proposal.status = dbStatus'[ca'[i].call.pid]]_vars

\* C4: Decide on a proposal whose stored status is already accepted or
\* rejected issues no repository write.
C4_NoWriteOnDecidedProposal ==
  [][\A i \in Instances :
       Issues(i) => dbStatus[ca'[i].call.pid] \notin Terminal]_vars

\* C5: a proposal with zero evaluations is never decided: no status write
\* reaches it and its status stays non-terminal.
C5_NoDecisionWithoutEvaluations ==
  \A p \in ProposalIds : dbEvals[p] = <<>> => dbStatus[p] \notin Terminal

\* C6: the status a Decide call sends is computed from all the evaluations
\* stored for the proposal when Decide is invoked.
C6_DecideUsesStoredEvaluations ==
  [][\A i \in Instances :
       (Issues(i) /\ dbEvals[ca'[i].call.pid] # <<>>)
       => ca'[i].call.status =
            StatusFor(calculateMetrics(dbEvals[ca'[i].call.pid]))]_vars

\* C7: the committed status is accepted exactly when the exact mean of the
\* scores is >= 7, and rejected exactly when it is < 7.
C7_ThresholdOnExactAggregate ==
  \A i \in Instances :
    (ca[i].mounted /\ Applied(ca[i].call))
    => LET scores == ScoresOf(ca[i].evaluations)
       IN  (ca[i].call.status = "accepted")
           <=> (SumSeq(scores) >= 7 * 100 * Len(scores))

\* C8: for evaluations that all carry the same score s, the consensus score
\* equals s.
C8_ConsensusOfEqualScores ==
  \A i \in Instances :
    (/\ ca[i].mounted
     /\ ca[i].metrics # NoMetrics
     /\ \A k \in 1..Len(ca[i].evaluations) :
          ca[i].evaluations[k].score = ca[i].evaluations[1].score)
    => ca[i].metrics.averageScore * 10 = ca[i].evaluations[1].score

\* n^2 times the variance of the scores, as mean of squares minus square of
\* the mean: n * sum(s^2) - (sum s)^2
VarianceN2(scores) ==
  Len(scores) * SumSeq([k \in 1..Len(scores) |-> scores[k] * scores[k]])
  - SumSeq(scores) * SumSeq(scores)

\* the confidence the claim gives for a sequence of scores (in hundredths)
ExpectedStrength(scores) ==
  LET n == Len(scores)
  IN  IF VarianceN2(scores) < 1 * 10000 * n * n /\ n >= 3 THEN "High"
      ELSE IF VarianceN2(scores) < 2 * 10000 * n * n /\ n >= 2 THEN "Medium"
      ELSE "Low"

\* C9: the confidence is High exactly when variance < 1 and count >= 3,
\* Medium exactly when it is not High and variance < 2 and count >= 2, Low
\* otherwise; the scores 8, 7, 9 give average 8.0, High and accepted.
C9_ConfidenceClassification ==
  \A i \in Instances :
    (ca[i].mounted /\ ca[i].metrics # NoMetrics)
    => LET scores == ScoresOf(ca[i].evaluations)
       IN  /\ ca[i].metrics.consensusStrength = ExpectedStrength(scores)
           /\ scores = <<800, 700, 900>>
              => /\ ca[i].metrics.averageScore = 80
                 /\ ca[i].metrics.consensusStrength = "High"
                 /\ ca[i].call.phase # "none" => ca[i].call.status = "accepted"

\* C9 witness: the scores 8, 7, 9 were loaded, classified High, and the
\* decision accepted was committed and reported.
C9_ScenarioA ==
  \E i \in Instances :
    /\ ScoresOf(ca[i].evaluations) = <<800, 700, 900>>
    /\ ca[i].metrics.consensusStrength = "High"
    /\ ca[i].call.phase = "reported"
    /\ dbStatus[1] = "accepted"

\* C10: the stored evaluations of a proposal hold at most one evaluation by
\* each evaluator.
C10_OneEvaluationPerEvaluator ==
  \A p \in ProposalIds, e \in Instances :
    Cardinality({k \in 1..Len(dbEvals[p]) : dbEvals[p][k].by = e}) <= 1

\* the continuation of instance i's handleEvaluate runs on a failure of the
\* oracle
OracleFailed(i) == dm[i].call.phase = "failed" /\ dm'[i].call.phase # "failed"

\* C11: when evaluateProposal rejects, the Evaluate call ends with the error
\* shown, saveEvaluation is not called, no evaluation row is inserted and the
\* evaluation displayed is not replaced; saveEvaluation is only ever issued
\* with the score the oracle returned.
C11_OracleFailureRecordsNothing ==
  [][\A i \in Instances :
       /\ (dm[i].call.phase # "save" /\ dm'[i].call.phase = "save") =>
            /\ dm[i].call.phase = "scored"
            /\ dm'[i].call.score = dm[i].call.score
            /\ dm'[i].call.score \in Scores
       /\ OracleFailed(i) =>
            /\ dm'[i].call = NoDmCall
            /\ dbEvals' = dbEvals
            /\ dm'[i].evaluation = dm[i].evaluation
            /\ dm[i].mounted =>
                 /\ dm'[i].error = "Error evaluating proposal: Evaluation failed"
                 /\ ~dm'[i].isEvaluating]_vars

\* C11 witness: an Evaluate call has ended on a failure of the oracle, with
\* the error shown, no evaluation displayed and no evaluation row stored
C11_OracleFailureShown ==
  \E i \in Instances :
    /\ dm[i].error = "Error evaluating proposal: Evaluation failed"
    /\ dm[i].call = NoDmCall
    /\ dm[i].evaluation = NoEvaluation
    /\ dbEvals[dm[i].proposalId] = <<>>

\* C12: while an instance shows 'Proposal not found' for a proposalId that
\* references no proposal, it issues no status write.
C12_NoWriteForMissingProposal ==
  [][\A i \in Instances :
       (/\ ca[i].mounted
        /\ ca[i].error = "Proposal not found"
        /\ dbStatus[ca[i].proposalId] = "absent") => ~Issues(i)]_vars

\* handleSubmit starts an allocation in this step: matchTask is asked
StartsAllocation == ta.call.phase = "none" /\ ta'.call.phase = "match"

\* saveTask is issued in this step
IssuesSaveTask == ta.call.phase # "save" /\ ta'.call.phase = "save"

\* the continuation of handleSubmit runs on a failure of matchTask
MatchFailed == ta.call.phase = "matchFailed" /\ ta'.call.phase # "matchFailed"

\* C13: an Allocate call that ends in failure has saved no task: a call
\* whose saveTask inserted a row ends with success reported; and a step adds
\* at most one tasks row, the row of the call being saved.
C13_FailedAllocateSavesNothing ==
  [][/\ (ta.mounted /\ ta.call.phase = "saved" /\ ta'.call.phase = "none") =>
          ta'.success = "Task allocated successfully"
     /\ dbTasks' # dbTasks =>
          /\ ta.call.phase = "save" /\ ta'.call.phase = "saved"
          /\ dbTasks' = Append(dbTasks,
                               [description |-> ta.call.description,
                                assignedAgentId |-> ta.call.agentId])]_vars

\* C14: with an empty roster, in the repository and in the component, no
\* allocation is started: matchTask is not asked.
C14_EmptyRosterAsksNoOracle ==
  [][(dbAgents = {} /\ ta.agents = {}) => ~StartsAllocation]_vars

C16_TieAssignsLowestId ==
  [][(/\ dbTasks = <<>>
      /\ dbTasks' # <<>>
      /\ ta.call.candidates = dbAgents) =>
        dbTasks'[1].assignedAgentId = LowestId(dbAgents)]_vars

\* C17: with an empty or whitespace-only description, a click on Allocate
\* Task shows 'Please enter a task description', and no step starts an
\* allocation, sets isAllocating or inserts a tasks row; every allocation in
\* flight carries a description that is not blank.
C17_BlankDescriptionStartsNothing ==
  [][/\ (ta.mounted /\ Trim(ta.taskDescription) = <<>>) =>
          /\ ta'.call = NoTaCall
          /\ ~ta'.isAllocating
          /\ dbTasks' = dbTasks
          /\ handleSubmit => ta'.error = "Please enter a task description"
     /\ ta'.call.phase # "none" => Trim(ta'.call.description) # <<>>]_vars

\* C17 witness: Allocate Task was clicked on a whitespace-only description:
\* the validation error is shown and nothing is in flight or stored
C17_WhitespaceRejected ==
  /\ ta.mounted
  /\ ta.taskDescription = <<" ">>
  /\ ta.error = "Please enter a task description"
  /\ ta.call = NoTaCall
  /\ ~ta.isAllocating
  /\ dbTasks = <<>>

\* C18: success is reported only by the step that follows a successful
\* saveTask: the tasks row of the call is stored, the assigned agent is
\* selected, and no write is pending while success is shown.
C18_SuccessAfterSavedWrite ==
  [][/\ (ta.success = "" /\ ta'.success # "") =>
          /\ ta.call.phase = "saved"
          /\ \E k \in 1..Len(dbTasks) :
                dbTasks[k] = [description |-> ta.call.description,
                              assignedAgentId |-> ta.call.agentId]
          /\ ta'.selectedAgent = ta.call.agentId
     /\ ta'.success # "" => ta'.call.phase = "none"]_vars

\* C18 witness: success is reported and the tasks table holds a row
\* assigned to the agent shown
C18_SuccessReported ==
  /\ ta.success = "Task allocated successfully"
  /\ ta.selectedAgent # 0
  /\ \E k \in 1..Len(dbTasks) : dbTasks[k].assignedAgentId = ta.selectedAgent

\* C19: once the roster has been loaded, the candidates of every Allocate
\* call are the agents stored in the repository when the call starts.
C19_AllocateUsesCurrentRoster ==
  [][(ta.load.st = "done" /\ StartsAllocation) =>
       ta'.call.candidates = dbAgents]_vars

\* C20: while the overview is shown for a loaded snapshot, the Proposal
\* Success Rate and the Task Completion Rate are numbers: the rounded
\* percentage part / total when total > 0, and 0 when total = 0.
C20_RatesAreNumbers ==
  (pm.mounted /\ pm.metrics # NoPmMetrics /\ pm.currentView = "overview") =>
    /\ ProposalSuccessRate(pm.metrics) =
         [kind |-> "number",
          value |-> IF pm.metrics.proposals.total = 0 THEN 0
                    ELSE (200 * pm.metrics.proposals.accepted
                          + pm.metrics.proposals.total)
                         \div (2 * pm.metrics.proposals.total)]
    /\ TaskCompletionRate(pm.metrics) =
         [kind |-> "number",
          value |-> IF pm.metrics.tasks.total = 0 THEN 0
                    ELSE (200 * pm.metrics.tasks.completed
                          + pm.metrics.tasks.total)
                         \div (2 * pm.metrics.tasks.total)]

\* the continuation of instance i's calculateConsensus runs on a failure of
\* updateProposalStatus
WriteFailed(i) ==
  ca[i].mounted /\ ca[i].call.phase = "err" /\ ca'[i].call.phase # "err"
  /\ ca'[i].mounted

\* C21: when updateProposalStatus rejects, the stored status is unchanged;
\* the continuation shows the error, does not report consensus, leaves the
\* proposal held by the component as it was, issues no further write, and
\* leaves the Calculate Consensus button enabled for a later attempt.
C21_FailedWriteIsSurfaced ==
  [][\A i \in Instances :
       /\ (ca[i].call.phase = "sent" /\ ca'[i].call.phase = "err") =>
            dbStatus' = dbStatus
       /\ WriteFailed(i) =>
            /\ ca'[i].error = "Error reaching consensus"
            /\ ~ca'[i].consensusReached
            /\ ca'[i].proposal = ca[i].proposal
            /\ ca'[i].call = NoCall
            /\ ButtonEnabled(ca'[i])]_vars

\* C21 witness: a status write has failed and its instance shows the error,
\* no consensus, the proposal still pending, and an enabled button
C21_FailedWriteShown ==
  \E i \in Instances :
    /\ ca[i].error = "Error reaching consensus"
    /\ ~ca[i].consensusReached
    /\ ca[i].proposal.status = "pending"
    /\ ca[i].call = NoCall
    /\ ButtonEnabled(ca[i])

\* C25: within one instance, the continuation of a successful write sets
\* consensusReached; from then on consensusReached stays true and the button
\* is not enabled, so no further write is issued; and the button is not
\* enabled while a write is in flight.
C25_OneSuccessfulWritePerInstance ==
  [][\A i \in Instances :
       /\ (/\ ca[i].mounted /\ ca[i].call.phase = "ok"
           /\ ca'[i].mounted /\ ca'[i].call.phase # "ok") =>
            ca'[i].consensusReached
       /\ (ca[i].consensusReached /\ ca'[i].mounted) =>
            /\ ca'[i].consensusReached
            /\ ~ButtonEnabled(ca'[i])
       /\ Issues(i) => (~ca[i].consensusReached /\ ca[i].call.phase = "none")
       /\ (ca'[i].mounted /\ InFlight(ca'[i].call)) =>
            ~ButtonEnabled(ca'[i])]_vars

\* C25 witness: the write of an instance has succeeded and was reported,
\* and the instance has since been given another proposalId
C25_ConsensusReachedKept ==
  \E i \in Instances :
    /\ ca[i].mounted
    /\ ca[i].consensusReached
    /\ ca[i].call.phase = "reported"
    /\ dbStatus[ca[i].call.pid] \in Terminal
    /\ ca[i].proposalId # ca[i].call.pid

\* C26: every status write carries the id of the proposal held by the
\* component, whose evaluations produced the metrics that chose the status.
C26_WriteCarriesLoadedProposalId ==
  [][\A i \in Instances :
       Issues(i) => ca'[i].call.pid = ca[i].proposal.id]_vars

\* C24: while an allocation of the mounted component is in flight
\* isAllocating is true, so the submit control is disabled and no second
\* allocation starts; when the allocation completes, with success or with an
\* error, isAllocating is false again; and isAllocating is true only while
\* an allocation is in flight.
C24_OneAllocationInFlight ==
  [][/\ (ta'.mounted /\ ta'.call.phase # "none") => ta'.isAllocating
     /\ StartsAllocation => ~ta.isAllocating
     /\ (/\ ta.mounted /\ ta.call.phase # "none"
         /\ ta'.mounted /\ ta'.call.phase = "none") => ~ta'.isAllocating
     /\ ta'.isAllocating => ta'.call.phase # "none"]_vars

\* C24 witness: an allocation has completed with an error after its task
\* was saved, and the submit control is enabled again
C24_CompletedWithError ==
  /\ ta.mounted
  /\ ta.error = "Error allocating task: Matched agent not found"
  /\ ta.call = NoTaCall
  /\ ~ta.isAllocating
  /\ dbTasks # <<>>

\* C27: once no workload fetch and no allocation is outstanding, the
\* workload shown under the selected agent was fetched for that agent.
C27_WorkloadOfSelectedAgent ==
  (/\ ta.mounted
   /\ ta.fetches = {}
   /\ ta.call.phase = "none"
   /\ ta.selectedAgent \in ta.agents
   /\ ta.workload # NoWorkload) => ta.workload.agent = ta.selectedAgent

\* C28: the success message and an error message are never both set.
C28_SuccessExcludesError ==
  ta.success # "" => ta.error = ""

\* C29: once no metrics load is outstanding, the metrics held are those of
\* the date range requested last, or an error is shown.
C29_MetricsOfLatestRange ==
  (pm.mounted /\ pm.loads = {}) =>
    (pm.metrics.range = pm.dateRange \/ pm.error # "")

\* C30: for a loaded snapshot the resource utilization is Low when no task
\* is in progress, also with zero agents; and with agents it is Low when
\* inProgress / agents < 1, Medium when it is >= 1 and < 2, High when >= 2.
C30_UtilizationClassification ==
  (pm.mounted /\ pm.metrics # NoPmMetrics) =>
    LET m == pm.metrics
    IN  /\ m.tasks.inProgress = 0 => getResourceUtilization(m) = "Low"
        /\ m.agents > 0 =>
             getResourceUtilization(m) =
               IF m.tasks.inProgress < m.agents THEN "Low"
               ELSE IF m.tasks.inProgress < 2 * m.agents THEN "Medium"
               ELSE "High"

\* slot k issues generateProposal / saveProposal in this step
IssuesGenerate(k) == gen[k].phase # "oracle" /\ gen'[k].phase = "oracle"
IssuesSaveProposal(k) == gen[k].phase # "save" /\ gen'[k].phase = "save"

\* C23: generateProposal is invoked only with a non-blank topic and a selected
\* specialty; saveProposal is invoked only after generateProposal returned
\* non-empty content; and selectedProposalId is set through onProposalCreated
\* only after saveProposal succeeded, to the id of the row it inserted.
C23_GenerateSaveNotifyInOrder ==
  [][/\ \A k \in GenSlots :
          /\ IssuesGenerate(k) =>
               Trim(an.topic) # <<>> /\ an.selectedSpecialty # ""
          /\ IssuesSaveProposal(k) =>
               gen[k].phase = "generated" /\ gen[k].content # ""
     /\ app'.selectedProposalId # app.selectedProposalId =>
          \E k \in GenSlots :
            /\ gen[k].phase = "saved"
            /\ app'.selectedProposalId = gen[k].pid
            /\ dbStatus[gen[k].pid] # "absent"]_vars

\* no saveProposal answer of this session is waiting for its continuation
NoCreationUnreported == \A k \in GenSlots : gen[k].phase # "saved"

\* C22: DecisionMaking and ConsensusAlgorithm are rendered only after this
\* session created a proposal, they are rendered with the id of the proposal
\* the session created last, and a navigation step leaves selectedProposalId
\* as it is.
C22_ViewsShowLatestProposal ==
  [][/\ app'.currentView # app.currentView =>
          app'.selectedProposalId = app.selectedProposalId
     /\ \A prop \in {DecisionMakingProp', ConsensusAlgorithmProp'} :
          (prop # 0 /\ NoCreationUnreported') =>
             /\ app'.lastCreated # 0
             /\ prop = app'.lastCreated]_vars

====
